---- MODULE Spec2Model ----
(***************************************************************************)
(* Model of cmd/rabbitmq.go: the message builder NewMessageFromAttrs, the  *)
(* session setup NewRabbitMQ and the two loops RabbitMQ.Publish and        *)
(* RabbitMQ.Consume, the goroutine watching the connection, together with   *)
(* the broker, the producer feeding the input stream and the downstream    *)
(* consumer of the output stream.                                          *)
(***************************************************************************)
EXTENDS Integers, Sequences, FiniteSets, TLC

\* ---------------------------------------------------------------- bounds
\* Messages the producer feeds on the input stream of Publish.
MaxIn == 2
\* Deliveries the broker yields on the subscription of Consume.
MaxDeliv == 2
\* Capacity of a buffered caller-owned channel.
MaxCap == 1
\* Largest pending-message count a passive queue declaration reports.
MaxPending == 1

\* ------------------------------------------------------------- constants
\* amqp.Persistent, the delivery mode of every publishing.
Persistent == 2

\* The attribute that designates the routing key.
RoutingKeyAttr == "amqp.routingKey"

\* Attribute keys, attribute values, overrides and payloads of the builder.
AttrKeys == {RoutingKeyAttr, "source", "kind"}
AttrVals == {"a", "b"}
Overrides == {"", "ovr"}
Payloads == {<<>>, <<1>>}

\* The empty header mapping.
NoHeaders == [k \in {} |-> ""]

\* The zero Message.
ZeroMessage == [Body |-> <<>>, RoutingKey |-> "", Headers |-> NoHeaders]

\* Messages carried by the streams.
Messages ==
    { [Body |-> <<>>, RoutingKey |-> "orders.created",
       Headers |-> [k \in {"source"} |-> "api"]],
      [Body |-> <<1>>, RoutingKey |-> "", Headers |-> NoHeaders] }

\* The zero amqp.Delivery.
ZeroDelivery ==
    [DeliveryTag |-> 0, Body |-> <<>>, RoutingKey |-> "", Headers |-> NoHeaders]

\* Capacities of the caller-owned channels: unbuffered or buffered.
Caps == {0, MaxCap}

\* The zero amqp.Queue.
ZeroQueue == [Name |-> "", Messages |-> 0]

\* Arguments of NewRabbitMQ.
SetupArgs ==
    [amqpURI : {"amqp://broker"}, exchange : {"ex"}, queue : {"q1"},
     routingKey : {""}, tag : {"ctag"}, prefetch : {1},
     consume : BOOLEAN, publish : BOOLEAN]

VARIABLES
    \* message builder
    routingKey,   \* package-level routing-key override read by the builder
    attrs,        \* attribute mapping given to the builder
    bytes,        \* payload given to the builder
    built,        \* <<m>> once the builder has returned m
    \* setup
    args,         \* arguments of NewRabbitMQ
    pcSetup,      \* position of NewRabbitMQ
    conn,         \* connection dialled
    channel,      \* channel opened
    q,            \* result of QueueDeclarePassive
    r,            \* <<session>> once NewRabbitMQ has returned it
    exited,       \* log.Fatalf has terminated the process
    calls,        \* setup and subscription calls made to the broker
    \* Publish
    pcPub,        \* position of Publish
    inCap,        \* capacity of the input stream
    inSent,       \* Messages fed on the input stream
    inTaken,      \* how many of them Publish has received
    inClosed,     \* the input stream is closed
    doc,          \* loop variable of Publish
    published,    \* publish calls made to the broker
    \* Consume
    pcCon,        \* position of Consume
    subscribed,   \* the delivery subscription is open
    subClosed,    \* the delivery subscription is closed
    deliveries,   \* deliveries yielded by the subscription
    delTaken,     \* how many of them Consume has received
    d,            \* loop variable of Consume
    outCap,       \* capacity of the output stream
    emitted,      \* Messages placed on the output stream
    outRecvd,     \* how many of them the downstream consumer has received
    outClosed,    \* the output stream is closed
    acks,         \* acknowledgements sent to the broker
    \* connection monitor
    pcMon,        \* position of the goroutine of lines 83-86
    connClosed,   \* the connection has raised its close notification
    blockedRaised,\* the connection has raised a blocked notification
    logs          \* lines the monitor has logged

buildVars == <<routingKey, attrs, bytes, built>>
setupVars == <<args, pcSetup, conn, channel, q, r, calls>>
pubVars == <<pcPub, inCap, inSent, inTaken, inClosed, doc, published>>
conVars == <<pcCon, subscribed, subClosed, deliveries, delTaken, d,
             outCap, emitted, outRecvd, outClosed, acks>>
monVars == <<pcMon, connClosed, blockedRaised, logs>>
vars == <<buildVars, setupVars, exited, pubVars, conVars, monVars>>

\* ------------------------------------------------------- message builder
\* AttrStep with the override used whether or not it is set.
AttrStep_AlwaysOverride(acc, k, v) ==
    IF k = RoutingKeyAttr
    THEN <<routingKey, acc[2]>>
    ELSE <<acc[1], [x \in DOMAIN acc[2] \cup {k} |->
                        IF x = k THEN v ELSE acc[2][x]]>>

\* AttrStep with the designation copied into the headers as well.
AttrStep_KeepDesignation(acc, k, v) ==
    <<(IF k = RoutingKeyAttr
       THEN (IF routingKey # "" THEN routingKey ELSE v)
       ELSE acc[1]),
      [x \in DOMAIN acc[2] \cup {k} |-> IF x = k THEN v ELSE acc[2][x]]>>

\* AttrStep with every attribute taken for the designation.
AttrStep_KeyFromAny(acc, k, v) ==
    <<(IF routingKey # "" THEN routingKey ELSE v),
      IF k = RoutingKeyAttr THEN acc[2]
      ELSE [x \in DOMAIN acc[2] \cup {k} |-> IF x = k THEN v ELSE acc[2][x]]>>

\* One iteration of the loop over attrs: acc is <<key, headers>>.
AttrStep(acc, k, v) ==
    IF k = RoutingKeyAttr
    THEN <<(IF routingKey # "" THEN routingKey ELSE v), acc[2]>>
    ELSE <<acc[1], [x \in DOMAIN acc[2] \cup {k} |->
                        IF x = k THEN v ELSE acc[2][x]]>>

RECURSIVE AttrsLoop(_, _, _)
\* The loop over attrs, over the keys not yet visited.
AttrsLoop(acc, m, rest) ==
    IF rest = {} THEN acc
    ELSE LET k == CHOOSE x \in rest : TRUE
         IN AttrsLoop(AttrStep(acc, k, m[k]), m, rest \ {k})

NewMessageFromAttrs(b, m) ==
    LET res == AttrsLoop(<<"", NoHeaders>>, m, DOMAIN m)
    IN [Body |-> b, RoutingKey |-> res[1], Headers |-> res[2]]

\* All attribute mappings over AttrKeys.
AttrMaps == UNION { [ks -> AttrVals] : ks \in SUBSET AttrKeys }

BuildInputs ==
    /\ routingKey \in Overrides
    /\ attrs \in AttrMaps
    /\ bytes \in Payloads
    /\ built = <<>>

Build ==
    /\ built = <<>>
    /\ built' = <<NewMessageFromAttrs(bytes, attrs)>>
    /\ UNCHANGED <<routingKey, attrs, bytes>>
    /\ UNCHANGED <<setupVars, exited, pubVars, conVars, monVars>>

\* ------------------------------------------------------------------ setup
Dial ==
    /\ ~exited
    /\ pcSetup = "dial"
    /\ \E ok \in BOOLEAN :
        /\ calls' = Append(calls, [op |-> "Dial", uri |-> args.amqpURI, ok |-> ok])
        /\ conn' = ok
        /\ pcSetup' = IF ok THEN "channel" ELSE "fatal"
        /\ pcMon' = IF ok THEN "close" ELSE pcMon
    /\ UNCHANGED <<args, channel, q, r, exited>>
    /\ UNCHANGED <<connClosed, blockedRaised, logs>>
    /\ UNCHANGED <<buildVars, pubVars, conVars>>

\* OpenChannel tried again after a failure.
OpenChannel_Retried ==
    /\ ~exited
    /\ pcSetup = "channel"
    /\ \E ok \in BOOLEAN :
        /\ Len(calls) < 4
        /\ calls' = Append(calls, [op |-> "Channel", ok |-> ok])
        /\ channel' = ok
        /\ pcSetup' = IF ok THEN "exchange" ELSE pcSetup
    /\ UNCHANGED <<args, conn, q, r, exited>>
    /\ UNCHANGED <<buildVars, monVars, pubVars, conVars>>

OpenChannel ==
    /\ ~exited
    /\ pcSetup = "channel"
    /\ \E ok \in BOOLEAN :
        /\ calls' = Append(calls, [op |-> "Channel", ok |-> ok])
        /\ channel' = ok
        /\ pcSetup' = IF ok THEN "exchange" ELSE "fatal"
    /\ UNCHANGED <<args, conn, q, r, exited>>
    /\ UNCHANGED <<buildVars, monVars, pubVars, conVars>>

\* ExchangeDeclare with the error of the declaration only logged.
ExchangeDeclare_ErrorIgnored ==
    /\ ~exited
    /\ pcSetup = "exchange"
    /\ IF args.publish
       THEN \E ok \in BOOLEAN :
            calls' = Append(calls,
                   [op |-> "ExchangeDeclarePassive", name |-> args.exchange,
                    kind |-> "topic", durable |-> TRUE, autoDelete |-> FALSE,
                    internal |-> FALSE, noWait |-> FALSE, ok |-> ok])
       ELSE UNCHANGED calls
    /\ pcSetup' = "queue"
    /\ UNCHANGED <<args, conn, channel, q, r, exited>>
    /\ UNCHANGED <<buildVars, monVars, pubVars, conVars>>

ExchangeDeclare ==
    /\ ~exited
    /\ pcSetup = "exchange"
    /\ IF args.publish
       THEN \E ok \in BOOLEAN :
            /\ calls' = Append(calls,
                   [op |-> "ExchangeDeclarePassive", name |-> args.exchange,
                    kind |-> "topic", durable |-> TRUE, autoDelete |-> FALSE,
                    internal |-> FALSE, noWait |-> FALSE, ok |-> ok])
            /\ pcSetup' = IF ok THEN "queue" ELSE "fatal"
       ELSE /\ pcSetup' = "queue"
            /\ UNCHANGED calls
    /\ UNCHANGED <<args, conn, channel, q, r, exited>>
    /\ UNCHANGED <<buildVars, monVars, pubVars, conVars>>

\* QueueIsEmpty with the comparison slipped.
QueueIsEmpty_Negative(qq) == qq.Messages < 0

\* The test of line 121.
QueueIsEmpty(qq) == qq.Messages = 0

\* Lines 108-123: the passive declaration, its error test and the test of
\* the pending-message count it reports.
QueueDeclare ==
    /\ ~exited
    /\ pcSetup = "queue"
    /\ IF args.consume
       THEN \E ok \in BOOLEAN, n \in 0..MaxPending :
            LET qq == IF ok THEN [Name |-> args.queue, Messages |-> n]
                            ELSE ZeroQueue
            IN /\ calls' = Append(calls,
                      [op |-> "QueueDeclarePassive", name |-> args.queue,
                       durable |-> TRUE, autoDelete |-> FALSE,
                       exclusive |-> FALSE, noWait |-> FALSE, ok |-> ok])
               /\ q' = qq
               /\ pcSetup' = IF ok /\ ~QueueIsEmpty(qq) THEN "bind" ELSE "fatal"
       ELSE /\ pcSetup' = "construct"
            /\ UNCHANGED <<calls, q>>
    /\ UNCHANGED <<args, conn, channel, r, exited>>
    /\ UNCHANGED <<buildVars, monVars, pubVars, conVars>>

\* QueueBind with the routing key given to setup as the binding key.
QueueBind_RoutingKey ==
    /\ ~exited
    /\ pcSetup = "bind"
    /\ \E ok \in BOOLEAN :
        /\ calls' = Append(calls,
               [op |-> "QueueBind", name |-> q.Name, key |-> args.routingKey,
                exchange |-> args.exchange, noWait |-> FALSE, ok |-> ok])
        /\ pcSetup' = IF ok THEN "construct" ELSE "fatal"
    /\ UNCHANGED <<args, conn, channel, q, r, exited>>
    /\ UNCHANGED <<buildVars, monVars, pubVars, conVars>>

QueueBind ==
    /\ ~exited
    /\ pcSetup = "bind"
    /\ \E ok \in BOOLEAN :
        /\ calls' = Append(calls,
               [op |-> "QueueBind", name |-> q.Name, key |-> "#",
                exchange |-> args.exchange, noWait |-> FALSE, ok |-> ok])
        /\ pcSetup' = IF ok THEN "construct" ELSE "fatal"
    /\ UNCHANGED <<args, conn, channel, q, r, exited>>
    /\ UNCHANGED <<buildVars, monVars, pubVars, conVars>>

\* The RabbitMQ value of lines 136-142; the fields it does not name are zero.
NewSession(a) ==
    [exchange |-> a.exchange, contentType |-> "application/json",
     contentEncoding |-> "UTF-8", queue |-> "", tag |-> "",
     routingKey |-> "", prefetch |-> 0, consume |-> FALSE, publish |-> FALSE]

Construct ==
    /\ ~exited
    /\ pcSetup = "construct"
    /\ r' = <<NewSession(args)>>
    /\ pcSetup' = "done"
    /\ UNCHANGED <<args, conn, channel, q, calls, exited>>
    /\ UNCHANGED <<buildVars, monVars, pubVars, conVars>>

\* ---------------------------------------------------------------- Publish
\* The caller starts Publish on a session it set up for publishing.
StartPublish ==
    /\ ~exited
    /\ r # <<>>
    /\ args.publish
    /\ pcPub = "idle"
    /\ pcPub' = "range"
    /\ UNCHANGED <<inCap, inSent, inTaken, inClosed, doc, published>>
    /\ UNCHANGED <<buildVars, monVars, setupVars, exited, conVars>>

\* The producer sends m on a buffered input stream.
Feed ==
    /\ ~exited
    /\ ~inClosed
    /\ Len(inSent) < MaxIn
    /\ Len(inSent) - inTaken < inCap
    /\ \E m \in Messages : inSent' = Append(inSent, m)
    /\ UNCHANGED <<pcPub, inCap, inTaken, inClosed, doc, published>>
    /\ UNCHANGED <<buildVars, monVars, setupVars, exited, conVars>>

\* The producer closes the input stream.
CloseIn ==
    /\ ~exited
    /\ ~inClosed
    /\ inClosed' = TRUE
    /\ UNCHANGED <<pcPub, inCap, inSent, inTaken, doc, published>>
    /\ UNCHANGED <<buildVars, monVars, setupVars, exited, conVars>>

\* PubRecv with the loop ending as soon as no Message is waiting.
PubRecv_ReturnsWhenIdle ==
    /\ ~exited
    /\ pcPub = "range"
    /\ \/ /\ inTaken < Len(inSent)
          /\ doc' = inSent[inTaken + 1]
          /\ inTaken' = inTaken + 1
          /\ pcPub' = "publish"
          /\ UNCHANGED inSent
       \/ /\ inTaken = Len(inSent)
          /\ pcPub' = "done"
          /\ UNCHANGED <<inSent, inTaken, doc>>
    /\ UNCHANGED <<inCap, inClosed, published>>
    /\ UNCHANGED <<buildVars, monVars, setupVars, exited, conVars>>

\* for doc := range in
PubRecv ==
    /\ ~exited
    /\ pcPub = "range"
    /\ \/ /\ inTaken < Len(inSent)
          /\ doc' = inSent[inTaken + 1]
          /\ inTaken' = inTaken + 1
          /\ pcPub' = "publish"
          /\ UNCHANGED inSent
       \/ /\ inTaken = Len(inSent)
          /\ inCap = 0
          /\ ~inClosed
          /\ Len(inSent) < MaxIn
          /\ \E m \in Messages :
              /\ inSent' = Append(inSent, m)
              /\ doc' = m
          /\ inTaken' = inTaken + 1
          /\ pcPub' = "publish"
       \/ /\ inTaken = Len(inSent)
          /\ inClosed
          /\ pcPub' = "done"
          /\ UNCHANGED <<inSent, inTaken, doc>>
    /\ UNCHANGED <<inCap, inClosed, published>>
    /\ UNCHANGED <<buildVars, monVars, setupVars, exited, conVars>>

\* PublishCall with the session's routing key in place of the Message's.
PublishCall_SessionKey(s, m) ==
    [exchange |-> s.exchange, key |-> s.routingKey,
     mandatory |-> FALSE, immediate |-> FALSE,
     Headers |-> m.Headers, ContentType |-> s.contentType,
     ContentEncoding |-> s.contentEncoding, Body |-> m.Body,
     DeliveryMode |-> Persistent]

\* The arguments of r.channel.Publish for doc.
PublishCall(s, m) ==
    [exchange |-> s.exchange, key |-> m.RoutingKey,
     mandatory |-> FALSE, immediate |-> FALSE,
     Headers |-> m.Headers, ContentType |-> s.contentType,
     ContentEncoding |-> s.contentEncoding, Body |-> m.Body,
     DeliveryMode |-> Persistent]

\* PubCall that records the routing key it published with in the session.
PubCall_StoresKey ==
    /\ ~exited
    /\ pcPub = "publish"
    /\ \E ok \in BOOLEAN :
        /\ published' = Append(published, [call |-> PublishCall(r[1], doc), ok |-> ok])
        /\ pcPub' = IF ok THEN "range" ELSE "fatal"
    /\ r' = <<[r[1] EXCEPT !.routingKey = doc.RoutingKey]>>
    /\ UNCHANGED <<inCap, inSent, inTaken, inClosed, doc>>
    /\ UNCHANGED <<args, pcSetup, conn, channel, q, calls, exited>>
    /\ UNCHANGED <<buildVars, monVars, conVars>>

\* PubCall with the publish error only logged.
PubCall_ErrorIgnored ==
    /\ ~exited
    /\ pcPub = "publish"
    /\ \E ok \in BOOLEAN :
        published' = Append(published, [call |-> PublishCall(r[1], doc), ok |-> ok])
    /\ pcPub' = "range"
    /\ UNCHANGED <<inCap, inSent, inTaken, inClosed, doc, exited>>
    /\ UNCHANGED <<buildVars, monVars, setupVars, conVars>>

\* Lines 154-166: the publish call and its error test; an error takes
\* Publish into log.Fatalf.
PubCall ==
    /\ ~exited
    /\ pcPub = "publish"
    /\ \E ok \in BOOLEAN :
        /\ published' = Append(published, [call |-> PublishCall(r[1], doc), ok |-> ok])
        /\ pcPub' = IF ok THEN "range" ELSE "fatal"
    /\ UNCHANGED <<inCap, inSent, inTaken, inClosed, doc>>
    /\ UNCHANGED <<buildVars, monVars, setupVars, exited, conVars>>

\* ---------------------------------------------------------------- Consume
\* The caller starts Consume on a session it set up for consuming.
StartConsume ==
    /\ ~exited
    /\ r # <<>>
    /\ args.consume
    /\ pcCon = "idle"
    /\ pcCon' = "subscribe"
    /\ UNCHANGED <<subscribed, subClosed, deliveries, delTaken, d,
                   outCap, emitted, outRecvd, outClosed, acks>>
    /\ UNCHANGED <<buildVars, monVars, setupVars, exited, pubVars>>

\* The arguments of r.channel.Consume.
ConsumeCall(s) ==
    [op |-> "Consume", queue |-> s.queue, tag |-> s.tag, noAck |-> FALSE,
     exclusive |-> FALSE, noLocal |-> FALSE, noWait |-> FALSE]

\* Lines 176-185: the subscription open and its error test; an error takes
\* Consume into log.Fatalf.
Subscribe ==
    /\ ~exited
    /\ pcCon = "subscribe"
    /\ \E ok \in BOOLEAN :
        /\ calls' = Append(calls, ConsumeCall(r[1]) @@ [ok |-> ok])
        /\ subscribed' = ok
        /\ pcCon' = IF ok THEN "range" ELSE "fatal"
    /\ UNCHANGED <<subClosed, deliveries, delTaken, d,
                   outCap, emitted, outRecvd, outClosed, acks>>
    /\ UNCHANGED <<args, pcSetup, conn, channel, q, r, exited>>
    /\ UNCHANGED <<buildVars, monVars, pubVars>>

\* The broker yields the next delivery on the subscription.
Deliver ==
    /\ ~exited
    /\ subscribed
    /\ ~subClosed
    /\ Len(deliveries) < MaxDeliv
    /\ \E m \in Messages :
        deliveries' = Append(deliveries,
            [DeliveryTag |-> Len(deliveries) + 1, Body |-> m.Body,
             RoutingKey |-> m.RoutingKey, Headers |-> m.Headers])
    /\ UNCHANGED <<pcCon, subscribed, subClosed, delTaken, d,
                   outCap, emitted, outRecvd, outClosed, acks>>
    /\ UNCHANGED <<buildVars, monVars, setupVars, exited, pubVars>>

\* The broker or the library closes the subscription.
CloseSub ==
    /\ ~exited
    /\ subscribed
    /\ ~subClosed
    /\ subClosed' = TRUE
    /\ UNCHANGED <<pcCon, subscribed, deliveries, delTaken, d,
                   outCap, emitted, outRecvd, outClosed, acks>>
    /\ UNCHANGED <<buildVars, monVars, setupVars, exited, pubVars>>

\* ConRecv with the loop ending as soon as no delivery is waiting.
ConRecv_EndsWhenIdle ==
    /\ ~exited
    /\ pcCon = "range"
    /\ \/ /\ delTaken < Len(deliveries)
          /\ d' = deliveries[delTaken + 1]
          /\ delTaken' = delTaken + 1
          /\ pcCon' = "send"
       \/ /\ delTaken = Len(deliveries)
          /\ pcCon' = "close"
          /\ UNCHANGED <<d, delTaken>>
    /\ UNCHANGED <<subscribed, subClosed, deliveries,
                   outCap, emitted, outRecvd, outClosed, acks>>
    /\ UNCHANGED <<buildVars, monVars, setupVars, exited, pubVars>>

\* for d := range deliveries
ConRecv ==
    /\ ~exited
    /\ pcCon = "range"
    /\ \/ /\ delTaken < Len(deliveries)
          /\ d' = deliveries[delTaken + 1]
          /\ delTaken' = delTaken + 1
          /\ pcCon' = "send"
       \/ /\ delTaken = Len(deliveries)
          /\ subClosed
          /\ pcCon' = "close"
          /\ UNCHANGED <<d, delTaken>>
    /\ UNCHANGED <<subscribed, subClosed, deliveries,
                   outCap, emitted, outRecvd, outClosed, acks>>
    /\ UNCHANGED <<buildVars, monVars, setupVars, exited, pubVars>>

\* MessageOf with the headers left out.
MessageOf_NoHeaders(dd) ==
    [Body |-> dd.Body, RoutingKey |-> dd.RoutingKey, Headers |-> NoHeaders]

\* The Message of lines 192-196.
MessageOf(dd) ==
    [Body |-> dd.Body, RoutingKey |-> dd.RoutingKey, Headers |-> dd.Headers]

\* ConSend that does not wait for room on the output stream.
ConSend_NonBlocking ==
    /\ ~exited
    /\ pcCon = "send"
    /\ emitted' = Append(emitted, MessageOf(d))
    /\ pcCon' = "ack"
    /\ UNCHANGED <<subscribed, subClosed, deliveries, delTaken, d,
                   outCap, outRecvd, outClosed, acks>>
    /\ UNCHANGED <<buildVars, monVars, setupVars, exited, pubVars>>

\* out <- msg: into the buffer, or handed to the downstream consumer when
\* the output stream is unbuffered.
ConSend ==
    /\ ~exited
    /\ pcCon = "send"
    /\ IF outCap = 0
       THEN outRecvd' = outRecvd + 1
       ELSE /\ Len(emitted) - outRecvd < outCap
            /\ UNCHANGED outRecvd
    /\ emitted' = Append(emitted, MessageOf(d))
    /\ pcCon' = "ack"
    /\ UNCHANGED <<subscribed, subClosed, deliveries, delTaken, d,
                   outCap, outClosed, acks>>
    /\ UNCHANGED <<buildVars, monVars, setupVars, exited, pubVars>>

\* The downstream consumer receives from a buffered output stream.
DownstreamRecv ==
    /\ ~exited
    /\ outRecvd < Len(emitted)
    /\ outRecvd' = outRecvd + 1
    /\ UNCHANGED <<pcCon, subscribed, subClosed, deliveries, delTaken, d,
                   outCap, emitted, outClosed, acks>>
    /\ UNCHANGED <<buildVars, monVars, setupVars, exited, pubVars>>

\* AckCall acknowledging cumulatively.
AckCall_Cumulative(dd) == [tag |-> dd.DeliveryTag, multiple |-> TRUE]

\* The arguments of r.channel.Ack for d.
AckCall(dd) == [tag |-> dd.DeliveryTag, multiple |-> FALSE]

\* ConAck with the acknowledgement left out.
ConAck_Skipped ==
    /\ ~exited
    /\ pcCon = "ack"
    /\ pcCon' = "range"
    /\ UNCHANGED <<subscribed, subClosed, deliveries, delTaken, d,
                   outCap, emitted, outRecvd, outClosed, acks>>
    /\ UNCHANGED <<buildVars, monVars, setupVars, exited, pubVars>>

ConAck ==
    /\ ~exited
    /\ pcCon = "ack"
    /\ acks' = Append(acks, AckCall(d))
    /\ pcCon' = "range"
    /\ UNCHANGED <<subscribed, subClosed, deliveries, delTaken, d,
                   outCap, emitted, outRecvd, outClosed>>
    /\ UNCHANGED <<buildVars, monVars, setupVars, exited, pubVars>>

\* close(out)
ConClose ==
    /\ ~exited
    /\ pcCon = "close"
    /\ outClosed' = TRUE
    /\ pcCon' = "done"
    /\ UNCHANGED <<subscribed, subClosed, deliveries, delTaken, d,
                   outCap, emitted, outRecvd, acks>>
    /\ UNCHANGED <<buildVars, monVars, setupVars, exited, pubVars>>

\* ------------------------------------------------------ connection monitor
\* The connection is closed and raises its close notification.
RaiseClose ==
    /\ ~exited
    /\ conn
    /\ ~connClosed
    /\ connClosed' = TRUE
    /\ UNCHANGED <<pcMon, blockedRaised, logs>>
    /\ UNCHANGED <<buildVars, setupVars, exited, pubVars, conVars>>

\* The broker blocks the open connection, which raises a blocked
\* notification.
RaiseBlocked ==
    /\ ~exited
    /\ conn
    /\ ~connClosed
    /\ ~blockedRaised
    /\ blockedRaised' = TRUE
    /\ UNCHANGED <<pcMon, connClosed, logs>>
    /\ UNCHANGED <<buildVars, setupVars, exited, pubVars, conVars>>

\* Line 84: the receive from NotifyClose returns once the connection is
\* closed, and its value is logged.
MonClose ==
    /\ ~exited
    /\ pcMon = "close"
    /\ connClosed
    /\ logs' = Append(logs, [msg |-> "writer closing", active |-> FALSE])
    /\ pcMon' = "blocked"
    /\ UNCHANGED <<connClosed, blockedRaised>>
    /\ UNCHANGED <<buildVars, setupVars, exited, pubVars, conVars>>

\* Line 85: NotifyBlocked is registered on the connection, closed by now, so
\* its receiver is closed at once and the receive returns the zero
\* amqp.Blocking, which is logged.
MonBlocked ==
    /\ ~exited
    /\ pcMon = "blocked"
    /\ logs' = Append(logs, [msg |-> "writer blocked by rabbit", active |-> FALSE])
    /\ pcMon' = "done"
    /\ UNCHANGED <<connClosed, blockedRaised>>
    /\ UNCHANGED <<buildVars, setupVars, exited, pubVars, conVars>>

\* ------------------------------------------------------------- log.Fatalf
\* Some goroutine is inside log.Fatalf, which does not return.
InFatalf == pcSetup = "fatal" \/ pcPub = "fatal" \/ pcCon = "fatal"

\* log.Fatalf reaches os.Exit: the process ends, and every goroutine with
\* it.  Until then the other goroutines keep running.
OsExit ==
    /\ ~exited
    /\ InFatalf
    /\ exited' = TRUE
    /\ UNCHANGED <<buildVars, setupVars, pubVars, conVars, monVars>>

\* ---------------------------------------------------------- specifications
\* The state before NewRabbitMQ is called.
SessionInit ==
    /\ args \in SetupArgs
    /\ pcSetup = "dial"
    /\ conn = FALSE
    /\ channel = FALSE
    /\ q = ZeroQueue
    /\ r = <<>>
    /\ exited = FALSE
    /\ calls = <<>>
    /\ pcPub = "idle"
    /\ inCap \in Caps
    /\ inSent = <<>>
    /\ inTaken = 0
    /\ inClosed = FALSE
    /\ doc = ZeroMessage
    /\ published = <<>>
    /\ pcCon = "idle"
    /\ subscribed = FALSE
    /\ subClosed = FALSE
    /\ deliveries = <<>>
    /\ delTaken = 0
    /\ d = ZeroDelivery
    /\ outCap \in Caps
    /\ emitted = <<>>
    /\ outRecvd = 0
    /\ outClosed = FALSE
    /\ acks = <<>>
    /\ pcMon = "off"
    /\ connClosed = FALSE
    /\ blockedRaised = FALSE
    /\ logs = <<>>

\* The builder is not called.
BuildIdle ==
    /\ routingKey = ""
    /\ attrs = NoHeaders
    /\ bytes = <<>>
    /\ built = <<>>

Init == SessionInit /\ BuildIdle

Next ==
    \/ Dial
    \/ OpenChannel
    \/ ExchangeDeclare
    \/ QueueDeclare
    \/ QueueBind
    \/ Construct
    \/ OsExit
    \/ StartPublish
    \/ Feed
    \/ CloseIn
    \/ PubRecv
    \/ PubCall
    \/ StartConsume
    \/ Subscribe
    \/ Deliver
    \/ CloseSub
    \/ ConRecv
    \/ ConSend
    \/ DownstreamRecv
    \/ ConAck
    \/ ConClose

Spec == Init /\ [][Next]_vars

\* The input stream is unbuffered.
FairInit == Init /\ inCap = 0

\* The steps of Next but the producer's send on a buffered input stream.
FairNext ==
    \/ Dial
    \/ OpenChannel
    \/ ExchangeDeclare
    \/ QueueDeclare
    \/ QueueBind
    \/ Construct
    \/ OsExit
    \/ StartPublish
    \/ CloseIn
    \/ PubRecv
    \/ PubCall
    \/ StartConsume
    \/ Subscribe
    \/ Deliver
    \/ CloseSub
    \/ ConRecv
    \/ ConSend
    \/ DownstreamRecv
    \/ ConAck
    \/ ConClose

\* Consume runs on a goroutine of its own, so a step it can take is taken,
\* and the downstream consumer keeps receiving.  Publish runs beside it, on
\* an unbuffered input stream.  A goroutine inside log.Fatalf goes on to
\* os.Exit.
FairSpec ==
    /\ FairInit
    /\ [][FairNext]_vars
    /\ WF_vars(ConRecv)
    /\ WF_vars(ConSend)
    /\ WF_vars(ConAck)
    /\ WF_vars(ConClose)
    /\ WF_vars(DownstreamRecv)
    /\ WF_vars(OsExit)

\* The output stream is unbuffered.
PubFairInit == Init /\ outCap = 0

\* The steps of Next but the downstream receive from a buffered output
\* stream.
PubFairNext ==
    \/ Dial
    \/ OpenChannel
    \/ ExchangeDeclare
    \/ QueueDeclare
    \/ QueueBind
    \/ Construct
    \/ OsExit
    \/ StartPublish
    \/ Feed
    \/ CloseIn
    \/ PubRecv
    \/ PubCall
    \/ StartConsume
    \/ Subscribe
    \/ Deliver
    \/ CloseSub
    \/ ConRecv
    \/ ConSend
    \/ ConAck
    \/ ConClose

\* Publish runs on a goroutine of its own, so a step it can take is taken.
\* Consume runs beside it, on an unbuffered output stream.  A goroutine
\* inside log.Fatalf goes on to os.Exit.
PubFairSpec ==
    /\ PubFairInit
    /\ [][PubFairNext]_vars
    /\ WF_vars(PubRecv)
    /\ WF_vars(PubCall)
    /\ WF_vars(OsExit)

\* The builder alone, on every input within the bounds.
BuildInit == BuildInputs /\ SessionInit

BuildNext == Build

BuildSpec == BuildInit /\ [][BuildNext]_vars

\* Setup and the connection monitor it starts, with the notifications of
\* the connection.
MonitorNext ==
    \/ Dial
    \/ OpenChannel
    \/ ExchangeDeclare
    \/ QueueDeclare
    \/ QueueBind
    \/ Construct
    \/ OsExit
    \/ RaiseClose
    \/ RaiseBlocked
    \/ MonClose
    \/ MonBlocked

\* The monitor runs on a goroutine of its own, and a goroutine inside
\* log.Fatalf goes on to os.Exit.
MonitorSpec ==
    /\ Init
    /\ [][MonitorNext]_vars
    /\ WF_vars(MonClose)
    /\ WF_vars(MonBlocked)
    /\ WF_vars(OsExit)

\* ----------------------------------------------------------------- claims
\* The Message a delivery translates to.
Translated(dd) ==
    [Body |-> dd.Body, RoutingKey |-> dd.RoutingKey, Headers |-> dd.Headers]

\* C1: every acknowledgement sent is non-cumulative, carries the tag of a
\* delivery whose Message is already on the output stream, and no delivery
\* tag is acknowledged twice.
C1_AckAfterEmit ==
    /\ \A i \in 1..Len(acks) :
        /\ acks[i].multiple = FALSE
        /\ \E j \in 1..Len(deliveries) :
            /\ acks[i].tag = deliveries[j].DeliveryTag
            /\ j <= Len(emitted)
            /\ emitted[j] = Translated(deliveries[j])
    /\ \A i, j \in 1..Len(acks) : acks[i].tag = acks[j].tag => i = j

\* Two deliveries have been emitted and acknowledged.
C1_Witness == Len(acks) >= 2 /\ Len(emitted) >= 2

\* C2: the Messages on the output stream are always a prefix of the
\* deliveries, field for field, and once the subscription has closed and
\* Consume has finished they are all of the deliveries, in order.
C2_OutputIsDeliveryPrefix ==
    /\ Len(emitted) <= Len(deliveries)
    /\ \A i \in 1..Len(emitted) :
        /\ emitted[i].Body = deliveries[i].Body
        /\ emitted[i].RoutingKey = deliveries[i].RoutingKey
        /\ emitted[i].Headers = deliveries[i].Headers
    /\ (subClosed /\ pcCon = "done") => Len(emitted) = Len(deliveries)

\* Consume has finished after two different deliveries.
C2_Witness ==
    /\ pcCon = "done"
    /\ Len(emitted) >= 2
    /\ emitted[1] # emitted[2]

\* C3 as stated: every delivery whose Message is on the output stream is
\* eventually acknowledged, in every execution.
C3_AckNeverSkipped ==
    \A i \in 1..MaxDeliv : (Len(emitted) >= i) ~> (Len(acks) >= i)

\* C3 as amended: every delivery whose Message is on the output stream is
\* eventually acknowledged, unless the process is terminated first.
C3_AckUnlessTerminated ==
    \A i \in 1..MaxDeliv : (Len(emitted) >= i) ~> (Len(acks) >= i \/ exited)

\* A delivery has been emitted and acknowledged while Publish is running.
C3_Witness ==
    /\ Len(emitted) >= 1
    /\ Len(acks) = Len(emitted)
    /\ pcPub = "publish"
    /\ ~exited

\* The publish call Publish is to make for Message m.
ExpectedPublish(m) ==
    [exchange |-> args.exchange, key |-> m.RoutingKey,
     mandatory |-> FALSE, immediate |-> FALSE,
     Headers |-> m.Headers, ContentType |-> "application/json",
     ContentEncoding |-> "UTF-8", Body |-> m.Body, DeliveryMode |-> 2]

\* C4: the publish calls are, in order, those of the Messages fed on the
\* input stream, each with the session's exchange and the Message's own
\* routing key, headers and body, and once Publish has finished there is
\* one call for each Message fed.
C4_PublishCallsMatchInput ==
    /\ Len(published) <= Len(inSent)
    /\ \A i \in 1..Len(published) : published[i].call = ExpectedPublish(inSent[i])
    /\ pcPub = "done" =>
        /\ Len(published) = Len(inSent)
        /\ \A i \in 1..Len(published) : published[i].ok

\* Publish has finished after two different Messages.
C4_Witness ==
    /\ pcPub = "done"
    /\ Len(published) >= 2
    /\ published[1] # published[2]

\* C5: on a session set up with consume enabled, the subscription is opened
\* on the queue and with the consumer tag given to setup.
C5_SubscribesToSetupQueue ==
    \A i \in 1..Len(calls) :
        (args.consume /\ calls[i].op = "Consume") =>
            /\ calls[i].queue = args.queue
            /\ calls[i].tag = args.tag

\* C6: with an override configured the built Message has the override as
\* its routing key, whatever the attributes are.
C6_OverrideAlwaysWins ==
    (built # <<>> /\ routingKey # "") => built[1].RoutingKey = routingKey

\* C7: without an override, a designation with value v gives the routing
\* key v and is not among the headers.
C7_DesignationGivesKey ==
    (built # <<>> /\ routingKey = "" /\ RoutingKeyAttr \in DOMAIN attrs) =>
        /\ built[1].RoutingKey = attrs[RoutingKeyAttr]
        /\ RoutingKeyAttr \notin DOMAIN built[1].Headers

\* A Message built from a designation and another attribute, no override.
C7_Witness ==
    /\ built # <<>>
    /\ routingKey = ""
    /\ RoutingKeyAttr \in DOMAIN attrs
    /\ Cardinality(DOMAIN attrs) >= 2

\* C8: the headers are exactly the attributes other than the designation,
\* each under its key with its value.
C8_HeadersAreOtherAttrs ==
    built # <<>> =>
        /\ DOMAIN built[1].Headers = DOMAIN attrs \ {RoutingKeyAttr}
        /\ \A k \in DOMAIN built[1].Headers : built[1].Headers[k] = attrs[k]

\* A Message built from a designation and two other attributes that differ.
C8_Witness ==
    /\ built # <<>>
    /\ DOMAIN attrs = AttrKeys
    /\ attrs["source"] # attrs["kind"]
    /\ Cardinality(DOMAIN built[1].Headers) = 2

\* C9: without an override and without the designation the routing key is
\* the empty string.
C9_NoDesignationEmptyKey ==
    (built # <<>> /\ routingKey = "" /\ RoutingKeyAttr \notin DOMAIN attrs) =>
        built[1].RoutingKey = ""

\* A Message built from attributes without the designation, no override.
C9_Witness ==
    /\ built # <<>>
    /\ routingKey = ""
    /\ RoutingKeyAttr \notin DOMAIN attrs
    /\ attrs # NoHeaders

\* The passive queue declaration succeeded and reported no pending message.
ReportedEmpty ==
    /\ args.consume
    /\ \E i \in 1..Len(calls) :
        calls[i].op = "QueueDeclarePassive" /\ calls[i].ok
    /\ q.Messages = 0

\* C10: with consume enabled, once the passive queue declaration reports
\* no pending message setup is inside log.Fatalf and the process eventually
\* terminates; the queue is not bound, no session is returned and no
\* subscription is opened.
C10_EmptyQueueIsFatal ==
    /\ [](ReportedEmpty =>
            /\ pcSetup = "fatal"
            /\ r = <<>>
            /\ pcCon = "idle"
            /\ \A i \in 1..Len(calls) :
                  calls[i].op \notin {"QueueBind", "Consume"})
    /\ ReportedEmpty ~> exited

\* Setup has been terminated by an empty queue.
C10_Witness == ReportedEmpty /\ exited /\ q.Name = args.queue

\* The passive exchange declaration of a publishing setup failed.
ExchangeDeclareFailed ==
    /\ args.publish
    /\ \E i \in 1..Len(calls) :
        calls[i].op = "ExchangeDeclarePassive" /\ ~calls[i].ok

\* C11: with publish enabled, once the passive exchange declaration has
\* failed setup is inside log.Fatalf and the process eventually terminates;
\* no queue is declared or bound, no session is returned and no publish call
\* is made.
C11_ExchangeFailureIsFatal ==
    /\ [](ExchangeDeclareFailed =>
            /\ pcSetup = "fatal"
            /\ r = <<>>
            /\ pcPub = "idle"
            /\ published = <<>>
            /\ \A i \in 1..Len(calls) :
                  calls[i].op \notin {"QueueDeclarePassive", "QueueBind", "Consume"})
    /\ ExchangeDeclareFailed ~> exited

\* Setup has been terminated by a failed exchange declaration, with
\* consume enabled as well.
C11_Witness == ExchangeDeclareFailed /\ exited /\ args.consume

\* Some publish call has returned an error.
PublishFailed == \E i \in 1..Len(published) : ~published[i].ok

\* C12 as stated: the first publish call that fails is the last one and
\* the process eventually terminates; after it no Message is taken or
\* published, and Consume emits and acknowledges nothing more.
C12_PublishErrorIsFatal ==
    /\ [](PublishFailed =>
            /\ pcPub = "fatal"
            /\ \A i \in 1..Len(published) : ~published[i].ok => i = Len(published)
            /\ Len(published) = inTaken)
    /\ [][PublishFailed => /\ published' = published
                           /\ inTaken' = inTaken
                           /\ emitted' = emitted
                           /\ acks' = acks]_vars
    /\ PublishFailed ~> exited

\* C12 as amended: the first publish call that fails is the last one and
\* the process eventually terminates; after it no Message is taken or
\* published, and Consume emits and acknowledges nothing more once the
\* process has terminated.
C12_PublishErrorIsFatalAtExit ==
    /\ [](PublishFailed =>
            /\ pcPub = "fatal"
            /\ \A i \in 1..Len(published) : ~published[i].ok => i = Len(published)
            /\ Len(published) = inTaken)
    /\ [][PublishFailed => /\ published' = published
                           /\ inTaken' = inTaken]_vars
    /\ [][exited => /\ emitted' = emitted
                    /\ acks' = acks]_vars
    /\ PublishFailed ~> exited

\* The process has terminated on the failure of the second publish call,
\* with Consume between emitting a Message and acknowledging it.
C12_Witness ==
    /\ PublishFailed
    /\ Len(published) >= 2
    /\ pcCon = "ack"
    /\ exited

\* C13 as stated: once the subscription is closed the output stream is
\* eventually closed; it is closed only when every delivery has been emitted
\* and acknowledged, and after the close Consume has returned and nothing
\* more is emitted.
C13_ClosesOutput ==
    /\ subClosed ~> outClosed
    /\ [](outClosed =>
            /\ subClosed
            /\ Len(emitted) = Len(deliveries)
            /\ Len(acks) = Len(deliveries))
    /\ [][outClosed => (outClosed' /\ pcCon' = "done" /\ emitted' = emitted)]_vars

\* C13 as amended: the same, unless the process is terminated before the
\* output stream is closed.
C13_ClosesOutputUnlessTerminated ==
    /\ subClosed ~> (outClosed \/ exited)
    /\ [](outClosed =>
            /\ subClosed
            /\ Len(emitted) = Len(deliveries)
            /\ Len(acks) = Len(deliveries))
    /\ [][outClosed => (outClosed' /\ pcCon' = "done" /\ emitted' = emitted)]_vars

\* The output stream has been closed after two deliveries.
C13_Witness ==
    /\ outClosed
    /\ Len(deliveries) >= 2
    /\ outRecvd = Len(emitted)

\* C14 as stated: once the input stream is closed and Publish is running,
\* Publish eventually returns unless a publish call fails; it returns only
\* when the input stream is closed and every Message fed has been published.
C14_ReturnsWhenInputEnds ==
    /\ (inClosed /\ pcPub \in {"range", "publish"}) ~>
           (pcPub = "done" \/ PublishFailed)
    /\ [](pcPub = "done" =>
            /\ inClosed
            /\ inTaken = Len(inSent)
            /\ Len(published) = Len(inSent))

\* C14 as amended: the same, unless the process is terminated before
\* Publish returns.
C14_ReturnsUnlessTerminated ==
    /\ (inClosed /\ pcPub \in {"range", "publish"}) ~>
           (pcPub = "done" \/ exited)
    /\ [](pcPub = "done" =>
            /\ inClosed
            /\ inTaken = Len(inSent)
            /\ Len(published) = Len(inSent))

\* Publish has returned after the input stream was closed with two Messages.
C14_Witness ==
    /\ pcPub = "done"
    /\ inClosed
    /\ Len(inSent) >= 2

\* The broker operations setup is to perform, in order.
ExpectedSetupOps ==
    <<"Dial", "Channel">>
    \o (IF args.publish THEN <<"ExchangeDeclarePassive">> ELSE <<>>)
    \o (IF args.consume THEN <<"QueueDeclarePassive", "QueueBind">> ELSE <<>>)

\* The calls setup has made.
SetupCalls == SelectSeq(calls, LAMBDA c : c.op # "Consume")

\* C15: setup calls the broker in the order dial, channel, exchange
\* declaration, queue declaration, bind; the bind comes after a non-zero
\* pending count and uses the pattern "#"; a session is returned only when
\* every step its flags ask for has succeeded; and neither loop runs before
\* the session is returned.
C15_SetupOrder ==
    /\ Len(SetupCalls) <= Len(ExpectedSetupOps)
    /\ \A i \in 1..Len(SetupCalls) : SetupCalls[i].op = ExpectedSetupOps[i]
    /\ \A i \in 1..Len(SetupCalls) :
        SetupCalls[i].op = "QueueBind" =>
            /\ q.Messages # 0
            /\ SetupCalls[i - 1].ok
            /\ SetupCalls[i].key = "#"
            /\ SetupCalls[i].name = args.queue
            /\ SetupCalls[i].exchange = args.exchange
    /\ r # <<>> =>
        /\ Len(SetupCalls) = Len(ExpectedSetupOps)
        /\ \A i \in 1..Len(SetupCalls) : SetupCalls[i].ok
        /\ args.consume => q.Messages # 0
    /\ (pcPub # "idle" \/ pcCon # "idle") => r # <<>>

\* A session has been returned for publishing and consuming and both loops
\* have been started on it.
C15_Witness ==
    /\ r # <<>>
    /\ args.publish
    /\ args.consume
    /\ pcPub # "idle"
    /\ pcCon # "idle"

\* An operation of setup, or the subscription open, has failed.
CallFailed == \E i \in 1..Len(calls) : ~calls[i].ok

\* C16 as stated: no broker operation of setup, nor the subscription open,
\* is made twice; a failed one is the last call and takes its caller into
\* log.Fatalf, with no session returned when it is an operation of setup;
\* after the failure no broker operation follows and no session appears;
\* and the process eventually terminates.
C16_NoRetry ==
    /\ [](/\ \A i, j \in 1..Len(calls) : calls[i].op = calls[j].op => i = j
          /\ \A i \in 1..Len(calls) :
                ~calls[i].ok =>
                    /\ i = Len(calls)
                    /\ IF calls[i].op = "Consume"
                       THEN pcCon = "fatal"
                       ELSE pcSetup = "fatal" /\ r = <<>>)
    /\ [][CallFailed => /\ calls' = calls
                        /\ published' = published
                        /\ acks' = acks
                        /\ r' = r]_vars
    /\ CallFailed ~> exited

\* C16 as amended: the same, but after a failed subscription open a Publish
\* running on the session may still publish until the process has
\* terminated; Consume itself performs no broker operation, and nothing
\* follows the failure of an operation of setup.
C16_NoRetryAtExit ==
    /\ [](/\ \A i, j \in 1..Len(calls) : calls[i].op = calls[j].op => i = j
          /\ \A i \in 1..Len(calls) :
                ~calls[i].ok =>
                    /\ i = Len(calls)
                    /\ IF calls[i].op = "Consume"
                       THEN pcCon = "fatal"
                       ELSE pcSetup = "fatal" /\ r = <<>>)
    /\ [][CallFailed => /\ calls' = calls
                        /\ acks' = acks
                        /\ r' = r]_vars
    /\ [][(CallFailed /\ pcSetup = "fatal") => published' = published]_vars
    /\ [][exited => published' = published]_vars
    /\ CallFailed ~> exited

\* The process has terminated on a failed subscription open, after every
\* step of setup had succeeded and Publish had published on the session.
C16_Witness ==
    /\ exited
    /\ Len(calls) = 6
    /\ calls[6].op = "Consume"
    /\ ~calls[6].ok
    /\ Len(published) >= 1

\* C17 as stated: at most one emitted delivery is unacknowledged, the next
\* delivery is taken only when the one before is acknowledged, and Consume
\* acknowledges nothing and takes no further delivery beyond what the
\* downstream consumer has received.
C17_OneAtATime ==
    /\ Len(emitted) - Len(acks) \in {0, 1}
    /\ delTaken <= Len(acks) + 1
    /\ Len(acks) <= outRecvd
    /\ delTaken <= outRecvd + 1

\* C17 as amended: the same, with Consume running ahead of the downstream
\* consumer by as many Messages as the output stream buffers.
C17_OneAtATimeUpToBuffer ==
    /\ Len(emitted) - Len(acks) \in {0, 1}
    /\ delTaken <= Len(acks) + 1
    /\ Len(acks) <= outRecvd + outCap
    /\ delTaken <= outRecvd + outCap + 1

\* Consume waits to send on a full buffered output stream, having
\* acknowledged every Message in the buffer.
C17_Witness ==
    /\ outCap >= 1
    /\ pcCon = "send"
    /\ Len(acks) = outRecvd + outCap
    /\ delTaken = outRecvd + outCap + 1

\* C18: under every interleaving the publish calls follow the Messages fed
\* and the emitted Messages and acknowledgements follow the deliveries, in
\* full once a loop has returned; no step changes the state of both loops;
\* and the session, its connection and its channel are never changed once
\* the session is returned.
C18_LoopsIndependent ==
    /\ [](/\ Len(published) <= Len(inSent)
          /\ \A i \in 1..Len(published) :
                published[i].call = ExpectedPublish(inSent[i])
          /\ Len(acks) <= Len(emitted)
          /\ Len(emitted) <= Len(deliveries)
          /\ \A i \in 1..Len(emitted) : emitted[i] = Translated(deliveries[i])
          /\ \A i \in 1..Len(acks) :
                acks[i] = [tag |-> deliveries[i].DeliveryTag, multiple |-> FALSE]
          /\ pcPub = "done" => Len(published) = Len(inSent)
          /\ pcCon = "done" =>
                (Len(emitted) = Len(deliveries) /\ Len(acks) = Len(deliveries)))
    /\ [][pubVars' = pubVars \/ conVars' = conVars]_vars
    /\ [][r # <<>> => (r' = r /\ conn' = conn /\ channel' = channel)]_vars

\* Both loops are in the middle of an iteration, each after a first one.
C18_Witness ==
    /\ pcPub = "publish"
    /\ pcCon = "ack"
    /\ Len(published) >= 1
    /\ Len(acks) >= 1
    /\ ~exited

\* C19: a close notification raised by the connection is eventually
\* logged, a blocked notification raised by the connection is eventually
\* logged, and the monitor changes nothing of the session.
C19_NotificationsLogged ==
    /\ blockedRaised ~>
           (\E i \in 1..Len(logs) :
                logs[i].msg = "writer blocked by rabbit" /\ logs[i].active)
    /\ connClosed ~> (\E i \in 1..Len(logs) : logs[i].msg = "writer closing")
    /\ [][logs' # logs => UNCHANGED <<setupVars, exited, pubVars, conVars>>]_vars

====
